---------------------------- MODULE Spec2Model ----------------------------
(***************************************************************************)
(* Verification model of cholestrack:                                      *)
(*   ai_agent/genetic_models.py  (GeneticModelFilter)                      *)
(*   ai_agent/data_parser.py     (TSVVariantParser, MultiSampleAnalyzer)   *)
(*   ai_agent/views.py, tasks.py, models.py  (AnalysisJob and its tasks)   *)
(*   users/models.py, decorators.py  (UserRole, role_required)             *)
(*   region_selection/views.py, utils.py, models.py and the cleanup        *)
(*   command  (RegionExtractionJob)                                        *)
(*                                                                         *)
(* Python values are modelled as optionals: a missing value (None, NaN) is *)
(* the empty tuple NA, any other value v is the one-element tuple <<v>>.   *)
(* A Python string is a sequence of one-character strings.                 *)
(***************************************************************************)
EXTENDS Integers, Sequences, FiniteSets, TLC

VARIABLES
    gt_string,   \* argument of the genotype helpers (a GT cell)
    parsed,      \* value returned by _parse_genotype, or NotCalled
    het,         \* value returned by _is_heterozygous, or NotCalled
    hom,         \* value returned by _is_homozygous_alt, or NotCalled
    parser_df,   \* TSVVariantParser.df, the table the parser holds
    model_df,    \* GeneticModelFilter.df, or NoObject before construction
    df0,         \* the table as loaded (history variable, never assigned)
    call,        \* the last operation called and its arguments
    ret,         \* the table it returned, or NoObject when it returned none
    parsers,     \* MultiSampleAnalyzer.parsers: (sample_id, parser) in dict order
    user,        \* request.user of a request to a decorated view
    response,    \* what the last permission method or decorated view returned
    job,         \* the database row of the job (RegionExtractionJob or AnalysisJob)
    requests,    \* the requests, commands and tasks in flight: position and job instance
    disk,        \* whether the job's temporary directory, with its output file, exists
    now,         \* timezone.now()
    served       \* history: the state of the row at each FileResponse returned

gtvars == <<gt_string, parsed, het, hom>>
webvars == <<user, response, job, requests, disk, now, served>>
jobvars == <<job, requests, disk, now, served>>
libvars == <<gtvars, parser_df, model_df, df0, call, ret, parsers>>
dfvars == <<parser_df, model_df, df0, call, ret, parsers, webvars>>
vars == <<gt_string, parsed, het, hom, parser_df, model_df, df0, call, ret, parsers, webvars>>

---------------------------------------------------------------------------
(* Python values *)

NA == <<>>
Some(v) == <<v>>
IsNa(c) == c = NA
Val(c) == c[1]

\* body with the value bound once: a local assignment `name = value`
LetIn(value, Body(_)) == CHOOSE out \in {Body(x) : x \in {value}} : TRUE

\* what a result variable holds before the operation that sets it has run
NotCalled == <<>>

---------------------------------------------------------------------------
(* Bounds *)

\* longest genotype token enumerated
MaxGtLen == 3
\* most rows of an enumerated variant table
MaxRows == 2
\* most samples of a MultiSampleAnalyzer
MaxSamples == 2
\* last tick of the clock
MaxNow == 2

---------------------------------------------------------------------------
(* Python string helpers *)

\* all strings over alphabet A of length at most n
RECURSIVE StringsUpTo(_, _)
StringsUpTo(A, n) ==
    IF n = 0 THEN {<<>>}
    ELSE LET shorter == StringsUpTo(A, n - 1)
         IN  shorter \cup {Append(s, c) : s \in shorter, c \in A}

\* str.replace(old, new) for one-character old and new
StrReplace(s, old, new) ==
    [i \in 1..Len(s) |-> IF s[i] = old THEN new ELSE s[i]]

\* str.split(sep) for a one-character sep: always at least one part
RECURSIVE StrSplit(_, _)
StrSplit(s, sep) ==
    IF \A i \in 1..Len(s) : s[i] # sep
    THEN <<s>>
    ELSE LET k == CHOOSE i \in 1..Len(s) :
                      s[i] = sep /\ \A j \in 1..(i - 1) : s[j] # sep
         IN  <<SubSeq(s, 1, k - 1)>> \o StrSplit(SubSeq(s, k + 1, Len(s)), sep)

---------------------------------------------------------------------------
(* Genotype parser: GeneticModelFilter._parse_genotype and predicates *)

GtAlphabet == {"0", "1", "2", ".", "/", "|"}
GtStrings == StringsUpTo(GtAlphabet, MaxGtLen)
GtTokens == {NA} \cup {Some(s) : s \in GtStrings}

NoCall == <<".", "/", ".">>
Zero == <<"0">>
NoneNone == <<NA, NA>>

\* a parser that leaves out the replace('|', '/') step
ParseGenotypeLiteralOnly(gt) ==
    IF IsNa(gt) \/ Val(gt) = NoCall
    THEN NoneNone
    ELSE LET alleles == StrSplit(Val(gt), "/")
         IN  IF Len(alleles) = 2
             THEN <<Some(alleles[1]), Some(alleles[2])>>
             ELSE NoneNone

ParseGenotype(gt) ==
    IF IsNa(gt) \/ Val(gt) = NoCall
    THEN NoneNone
    ELSE LET s == StrReplace(Val(gt), "|", "/")
             alleles == StrSplit(s, "/")
         IN  IF Len(alleles) = 2
             THEN <<Some(alleles[1]), Some(alleles[2])>>
             ELSE NoneNone

\* a predicate that leaves out the '0' in (allele1, allele2) test
IsHeterozygousNoRefCheck(gt) ==
    LET p == ParseGenotype(gt)
    IN  IF IsNa(p[1]) \/ IsNa(p[2]) THEN FALSE ELSE p[1] # p[2]

IsHeterozygous(gt) ==
    LET p == ParseGenotype(gt)
    IN  IF IsNa(p[1]) \/ IsNa(p[2])
        THEN FALSE
        ELSE p[1] # p[2] /\ Some(Zero) \in {p[1], p[2]}

IsHomozygousAlt(gt) ==
    LET p == ParseGenotype(gt)
    IN  IF IsNa(p[1]) \/ IsNa(p[2])
        THEN FALSE
        ELSE p[1] = p[2] /\ p[1] # Some(Zero)

---------------------------------------------------------------------------
(* Variant tables (pandas DataFrames) *)

\* A table is a set of column names and a sequence of rows; a row maps each
\* column name to a cell.  pd.DataFrame() is the table without columns and rows.
DataFrame(cols, rows) == [columns |-> cols, rows |-> rows]
EmptyDataFrame == DataFrame({}, <<>>)
\* no table: an attribute not yet set, or a call that has not returned one
NoObject == [columns |-> {}, rows |-> <<>>, none |-> TRUE]
NoCallYet == [op |-> "none", args |-> <<>>]

\* df[mask]: the rows satisfying the mask, in order, all columns kept
BooleanIndex(df, Mask(_)) == DataFrame(df.columns, SelectSeq(df.rows, Mask))

\* the comparison of Ge turned around (a wrong reading of the threshold)
AtMost(cell, threshold) == ~IsNa(cell) /\ Val(cell) <= threshold
\* cell >= threshold and cell <= threshold; a comparison with NaN is False
Ge(cell, threshold) == ~IsNa(cell) /\ Val(cell) >= threshold
Le(cell, threshold) == ~IsNa(cell) /\ Val(cell) <= threshold

\* all sequences over S of length at most n
RECURSIVE SeqsUpTo(_, _)
SeqsUpTo(S, n) ==
    IF n = 0 THEN {<<>>}
    ELSE LET shorter == SeqsUpTo(S, n - 1)
         IN  shorter \cup {Append(q, x) : q \in shorter, x \in S}

\* the tables with exactly the columns cols, rows drawn from the row set Rows
\* (records over at least cols), at most MaxRows rows
Restrict(r, cols) == [c \in cols |-> r[c]]
TablesOver(cols, Rows) ==
    {DataFrame(cols, q) : q \in SeqsUpTo({Restrict(r, cols) : r \in Rows}, MaxRows)}

---------------------------------------------------------------------------
(* TSVVariantParser: filters *)

FilterByQuality(df, min_qual, min_depth, min_gq) ==
    LET f0 == df
        f1 == IF ~IsNa(min_qual) /\ "QUAL" \in f0.columns
              THEN BooleanIndex(f0, LAMBDA r : Ge(r["QUAL"], Val(min_qual)))
              ELSE f0
        f2 == IF ~IsNa(min_depth) /\ "DP" \in f1.columns
              THEN BooleanIndex(f1, LAMBDA r : Ge(r["DP"], Val(min_depth)))
              ELSE f1
        f3 == IF ~IsNa(min_gq) /\ "GQ" \in f2.columns
              THEN BooleanIndex(f2, LAMBDA r : Ge(r["GQ"], Val(min_gq)))
              ELSE f2
    IN  f3

FilterByImpact(df, impacts) ==
    IF "IMPACT" \notin df.columns
    THEN df
    ELSE BooleanIndex(df, LAMBDA r : r["IMPACT"] \in impacts)

\* the mask without its series.isna() term
RareOnly(cell, max) == Le(cell, max)
\* series.isna() | (series <= max): a missing frequency passes
RareOrMissing(cell, max) == IsNa(cell) \/ Le(cell, max)

FilterByFrequency(df, max_gnomad_af, max_af) ==
    LET f0 == df
        f1 == IF ~IsNa(max_gnomad_af) /\ "gnomAD_AF" \in f0.columns
              THEN BooleanIndex(f0, LAMBDA r : RareOrMissing(r["gnomAD_AF"], Val(max_gnomad_af)))
              ELSE f0
        f2 == IF ~IsNa(max_af) /\ "AF" \in f1.columns
              THEN BooleanIndex(f1, LAMBDA r : RareOrMissing(r["AF"], Val(max_af)))
              ELSE f1
    IN  f2

\* s contains sub as a substring
Contains(s, sub) ==
    \E i \in 1..(Len(s) + 1) :
        i + Len(sub) - 1 <= Len(s) /\ SubSeq(s, i, i + Len(sub) - 1) = sub
\* gene in str(x): substring matching, without the split
GeneInFieldSubstring(gene, field) == Contains(field, gene)
\* gene in str(x).split(',')
GeneInField(gene, field) ==
    LET parts == StrSplit(field, ",")
    IN  \E k \in 1..Len(parts) : parts[k] = gene

FilterByGenes(df, gene_list) ==
    IF "GENE" \notin df.columns
    THEN EmptyDataFrame
    ELSE BooleanIndex(df, LAMBDA r :
             IF ~IsNa(r["GENE"])
             THEN \E gene \in gene_list : GeneInField(gene, Val(r["GENE"]))
             ELSE FALSE)

Chr == <<"c", "h", "r">>

GetVariantsByChromosome(df, chromosome) ==
    IF "CHROM" \notin df.columns
    THEN EmptyDataFrame
    ELSE BooleanIndex(df, LAMBDA r :
             \/ r["CHROM"] = Some(chromosome)
             \/ r["CHROM"] = Some(Chr \o chromosome))

---------------------------------------------------------------------------
(* Object references: which DataFrame object a name is bound to *)

Refs == {"parser.df", "self.df", "new"}
\* the objects alive when a GeneticModelFilter method is entered
HeapOf(p, m) == ("parser.df" :> p) @@ ("self.df" :> m) @@ ("new" :> NoObject)

\* no copy taken: the name is bound to the source object itself
CopyRefAlias(src) == src
\* df.copy() and df[mask] build a new object
CopyRef(src) == "new"
IndexRef(src) == "new"

\* bind ref to a table value
Bind(heap, ref, value) == [heap EXCEPT ![ref] = value]

\* df[col] = values, in place on the object ref is bound to
WithColumn(df, col, F(_)) ==
    DataFrame(df.columns \cup {col},
              [i \in 1..Len(df.rows) |->
                  [c \in df.columns \cup {col} |->
                      IF c = col THEN F(df.rows[i]) ELSE df.rows[i][c]]])
SetColumn(heap, ref, col, F(_)) ==
    [heap EXCEPT ![ref] = WithColumn(@, col, F)]

\* raise ValueError(msg)
Raised(msg) == [columns |-> {}, rows |-> <<>>, error |-> msg]
GtNotFound == "GT (genotype) column not found in data"
GeneNotFound == "GENE column not found in data"
IsRaised(r) == "error" \in DOMAIN r

---------------------------------------------------------------------------
(* MultiSampleAnalyzer: comparison of the tables of several samples *)

Digits == <<"0", "1", "2", "3", "4", "5", "6", "7", "8", "9">>
\* str(n) for a natural number n
RECURSIVE IntStr(_)
IntStr(n) ==
    IF n < 10 THEN <<Digits[n + 1]>>
    ELSE IntStr(n \div 10) \o <<Digits[(n % 10) + 1]>>
\* int(s) for a string of decimal digits
RECURSIVE ParseInt(_)
ParseInt(s) ==
    LET digit == (CHOOSE k \in 1..10 : Digits[k] = s[Len(s)]) - 1
    IN  IF Len(s) = 1 THEN digit
        ELSE 10 * ParseInt(SubSeq(s, 1, Len(s) - 1)) + digit

\* f"{row['CHROM']}:{row['POS']}"; a missing chromosome prints as nan
KeyOfPosOnly(row) == <<":">> \o IntStr(Val(row["POS"]))
KeyOf(row) ==
    (IF IsNa(row["CHROM"]) THEN <<"n", "a", "n">> ELSE Val(row["CHROM"]))
    \o <<":">> \o IntStr(Val(row["POS"]))

HasLocusColumns(df) == "CHROM" \in df.columns /\ "POS" \in df.columns

\* the (key, sample_id) pairs appended while iterating one parser's rows
LocationsOf(p) ==
    IF HasLocusColumns(p.df)
    THEN [i \in 1..Len(p.df.rows) |->
             [key |-> KeyOf(p.df.rows[i]), sample_id |-> p.sample_id]]
    ELSE <<>>
RECURSIVE Concat(_)
Concat(seqs) == IF seqs = <<>> THEN <<>> ELSE Head(seqs) \o Concat(Tail(seqs))

SharedColumns == {"CHROM", "POS", "num_samples", "sample_ids"}

\* find_shared_variants(min_samples); sample_ids, the comma-joined string, is
\* kept as the sequence of the identifiers joined
FindSharedVariants(ps, min_samples) ==
    IF Len(ps) < 2 THEN EmptyDataFrame
    ELSE
    LetIn(Concat([k \in 1..Len(ps) |-> LocationsOf(ps[k])]),
          LAMBDA appended :
    LetIn(SelectSeq([i \in 1..Len(appended) |-> i],
                    LAMBDA i : \A j \in 1..(i - 1) : appended[j].key # appended[i].key),
          LAMBDA first :
    LetIn([k \in 1..Len(first) |->
              [location |-> appended[first[k]].key,
               samples |-> LET same == SelectSeq(appended, LAMBDA e :
                                           e.key = appended[first[k]].key)
                           IN  [i \in 1..Len(same) |-> same[i].sample_id]]],
          LAMBDA variant_locations :
    LetIn(SelectSeq(variant_locations, LAMBDA v : Len(v.samples) >= min_samples),
          LAMBDA shared :
        IF \E k \in 1..Len(shared) : Len(StrSplit(shared[k].location, ":")) # 2
        THEN Raised("values to unpack")
        ELSE IF shared = <<>> THEN EmptyDataFrame
        ELSE DataFrame(SharedColumns,
                 [k \in 1..Len(shared) |->
                     [CHROM |-> Some(StrSplit(shared[k].location, ":")[1]),
                      POS |-> Some(ParseInt(StrSplit(shared[k].location, ":")[2])),
                      num_samples |-> Some(Len(shared[k].samples)),
                      sample_ids |-> Some(shared[k].samples)]])))))

\* find_unique_variants(sample_id)
FindUniqueVariants(ps, sample_id) ==
    IF \A k \in 1..Len(ps) : ps[k].sample_id # sample_id
    THEN EmptyDataFrame
    ELSE
    LET target_parser == ps[CHOOSE k \in 1..Len(ps) : ps[k].sample_id = sample_id]
        other_parsers == SelectSeq(ps, LAMBDA p : p.sample_id # sample_id)
        other_positions ==
            UNION { IF HasLocusColumns(other_parsers[k].df)
                    THEN {KeyOf(other_parsers[k].df.rows[i]) :
                             i \in 1..Len(other_parsers[k].df.rows)}
                    ELSE {} : k \in 1..Len(other_parsers) }
    IN  IF other_parsers = <<>> THEN target_parser.df
        ELSE IF HasLocusColumns(target_parser.df)
        THEN BooleanIndex(target_parser.df, LAMBDA row : KeyOf(row) \notin other_positions)
        ELSE EmptyDataFrame

---------------------------------------------------------------------------
(* GeneticModelFilter: inheritance models; frequencies in units of 1e-4 *)

RequiredColumns == {"CHROM", "POS", "REF", "ALT"}

\* __init__: self.df = dataframe.copy(), then _validate_columns
ConstructModelFilter(dataframe) ==
    IF RequiredColumns \subseteq dataframe.columns
    THEN dataframe
    ELSE Raised("Missing required columns")

DefaultImpacts == {Some("HIGH"), Some("MODERATE")}
DominantMaxGnomadAf == 10
RecessiveMaxGnomadAf == 100
CompoundHetMaxGnomadAf == 100
DefaultMinQual == 30
\* the literal ceilings of classify_pattern
AdCandidateMaxAf == 10
CompHetCandidateMaxAf == 100
ArCandidateMaxAf == 100

FilterAutosomalDominant(df, max_gnomad_af, min_qual, impacts) ==
    IF "GT" \notin df.columns
    THEN Raised(GtNotFound)
    ELSE
    LET f1 == BooleanIndex(df, LAMBDA r : IsHeterozygous(r["GT"]))
        f2 == IF "gnomAD_AF" \in f1.columns
              THEN BooleanIndex(f1, LAMBDA r : RareOrMissing(r["gnomAD_AF"], max_gnomad_af))
              ELSE f1
        f3 == IF "QUAL" \in f2.columns
              THEN BooleanIndex(f2, LAMBDA r : Ge(r["QUAL"], min_qual))
              ELSE f2
        f4 == IF "IMPACT" \in f3.columns
              THEN BooleanIndex(f3, LAMBDA r : r["IMPACT"] \in impacts)
              ELSE f3
    IN  f4

FilterAutosomalRecessive(df, max_gnomad_af, min_qual, impacts) ==
    IF "GT" \notin df.columns
    THEN Raised(GtNotFound)
    ELSE
    LET f1 == BooleanIndex(df, LAMBDA r : IsHomozygousAlt(r["GT"]))
        f2 == IF "gnomAD_AF" \in f1.columns
              THEN BooleanIndex(f1, LAMBDA r : RareOrMissing(r["gnomAD_AF"], max_gnomad_af))
              ELSE f1
        f3 == IF "QUAL" \in f2.columns
              THEN BooleanIndex(f2, LAMBDA r : Ge(r["QUAL"], min_qual))
              ELSE f2
        f4 == IF "IMPACT" \in f3.columns
              THEN BooleanIndex(f3, LAMBDA r : r["IMPACT"] \in impacts)
              ELSE f3
    IN  f4

\* Python's order on characters (code points) and strings
CodePoint(ch) == CASE ch = " " -> 32 [] ch = "," -> 44
                   [] ch = "0" -> 48 [] ch = "1" -> 49 [] ch = "2" -> 50
                   [] ch = "3" -> 51 [] ch = "5" -> 53
                   [] ch = "A" -> 65 [] ch = "B" -> 66 [] ch = "C" -> 67
                   [] ch = "P" -> 80 [] ch = "R" -> 82 [] ch = "T" -> 84
                   [] OTHER -> 127
\* a < b: a is a proper prefix of b, or is smaller at the first difference
StrLess(a, b) ==
    \E k \in 1..Len(b) :
        /\ k <= Len(a) + 1
        /\ \A j \in 1..(k - 1) : a[j] = b[j]
        /\ (k = Len(a) + 1 \/ CodePoint(a[k]) < CodePoint(b[k]))

\* order of two cells of a sort key column; missing values sort last
GeneCellLess(x, y) == ~IsNa(x) /\ (IsNa(y) \/ StrLess(Val(x), Val(y)))
PosCellLess(x, y) == ~IsNa(x) /\ (IsNa(y) \/ Val(x) < Val(y))
\* the order of sort_values(['POS']): the GENE key left out
PosOnlyLess(r1, r2) == PosCellLess(r1["POS"], r2["POS"])
\* r1 sorts strictly before r2 under sort_values(['GENE', 'POS'])
GenePosLess(r1, r2) ==
    \/ GeneCellLess(r1["GENE"], r2["GENE"])
    \/ /\ r1["GENE"] = r2["GENE"]
       /\ PosCellLess(r1["POS"], r2["POS"])

\* the rows in ascending key order, rows of equal key in their input order:
\* a row's place is one more than the number of rows that go before it
SortRows(rows) ==
    LET n == Len(rows)
        Before(j, i) ==
            \/ GenePosLess(rows[j], rows[i])
            \/ (~GenePosLess(rows[i], rows[j]) /\ j < i)
        Place(i) == Cardinality({j \in 1..n : Before(j, i)}) + 1
    IN  [k \in 1..n |-> rows[CHOOSE i \in 1..n : Place(i) = k]]
\* df.sort_values(['GENE', 'POS'])
SortValuesGenePos(df) == DataFrame(df.columns, SortRows(df.rows))

\* str.strip(): the string without its leading and trailing blanks
Strip(s) ==
    LET idx == {i \in 1..Len(s) : s[i] # " "}
    IN  IF idx = {} THEN <<>>
        ELSE SubSeq(s, CHOOSE i \in idx : \A j \in idx : i <= j,
                       CHOOSE i \in idx : \A j \in idx : j <= i)
\* a list returned by a method
ListObject(l) == [columns |-> {}, rows |-> <<>>, list |-> l]
\* TSVVariantParser.get_gene_list: the set holds the parts as split, the
\* parts are stripped after the set is built, and the list is sorted
GetGeneList(df) ==
    IF "GENE" \notin df.columns
    THEN ListObject(<<>>)
    ELSE LetIn(UNION { {StrSplit(Val(df.rows[i]["GENE"]), ",")[k] :
                            k \in 1..Len(StrSplit(Val(df.rows[i]["GENE"]), ","))} :
                       i \in {j \in 1..Len(df.rows) : ~IsNa(df.rows[j]["GENE"])} },
           LAMBDA genes :
             LetIn({g \in genes : Strip(g) # <<>>}, LAMBDA kept :
               ListObject([i \in 1..Cardinality(kept) |->
                   Strip(CHOOSE g \in kept :
                       /\ Cardinality({h \in kept : StrLess(Strip(h), Strip(g))}) < i
                       /\ i <= Cardinality({h \in kept : ~StrLess(Strip(g), Strip(h))}))])))

\* every value counted with the number of rows of the table
ValueCountsOfTable(df, col) ==
    [v \in {df.rows[i][col] : i \in 1..Len(df.rows)} \ {NA} |-> Len(df.rows)]
\* series.value_counts(): occurrences of each non-missing value
ValueCounts(df, col) ==
    [v \in {df.rows[i][col] : i \in 1..Len(df.rows)} \ {NA} |->
        Cardinality({i \in 1..Len(df.rows) : df.rows[i][col] = v})]

\* the heterozygous rows that pass the frequency, quality and impact filters
HetVariants(df, max_gnomad_af, min_qual, impacts) ==
    LET h1 == BooleanIndex(df, LAMBDA r : IsHeterozygous(r["GT"]))
        h2 == IF "gnomAD_AF" \in h1.columns
              THEN BooleanIndex(h1, LAMBDA r : RareOrMissing(r["gnomAD_AF"], max_gnomad_af))
              ELSE h1
        h3 == IF "QUAL" \in h2.columns
              THEN BooleanIndex(h2, LAMBDA r : Ge(r["QUAL"], min_qual))
              ELSE h2
        h4 == IF "IMPACT" \in h3.columns
              THEN BooleanIndex(h3, LAMBDA r : r["IMPACT"] \in impacts)
              ELSE h3
    IN  h4

\* the two column checks in the other order, and no grouping by gene
FilterCompoundHeterozygousGtFirst(heap, max_gnomad_af, min_qual, impacts) ==
    IF "GT" \notin heap["self.df"].columns
    THEN [heap |-> heap, ret |-> Raised(GtNotFound)]
    ELSE IF "GENE" \notin heap["self.df"].columns
    THEN [heap |-> heap, ret |-> Raised(GeneNotFound)]
    ELSE [heap |-> heap,
          ret |-> SortValuesGenePos(HetVariants(heap["self.df"], max_gnomad_af,
                                                min_qual, impacts))]

\* the method on the heap of objects: what it returns and the heap it leaves
FilterCompoundHeterozygous(heap, max_gnomad_af, min_qual, impacts) ==
    IF "GENE" \notin heap["self.df"].columns
    THEN [heap |-> heap, ret |-> Raised(GeneNotFound)]
    ELSE IF "GT" \notin heap["self.df"].columns
    THEN [heap |-> heap, ret |-> Raised(GtNotFound)]
    ELSE
    LetIn(HetVariants(heap["self.df"], max_gnomad_af, min_qual, impacts),
          LAMBDA het_variants :
    LetIn(ValueCounts(het_variants, "GENE"),
          LAMBDA gene_counts :
    LetIn({g \in DOMAIN gene_counts : gene_counts[g] >= 2},
          LAMBDA compound_het_genes :
    LetIn(IndexRef(CopyRef(IndexRef("self.df"))),
          LAMBDA compound_het_candidates :
    LetIn(Bind(heap, compound_het_candidates,
               BooleanIndex(het_variants, LAMBDA r : r["GENE"] \in compound_het_genes)),
          LAMBDA heap1 :
    LetIn(SetColumn(heap1, compound_het_candidates, "variants_in_gene",
                    LAMBDA r : Some(gene_counts[r["GENE"]])),
          LAMBDA heap2 :
        [heap |-> heap2, ret |-> SortValuesGenePos(heap2[compound_het_candidates])]))))))

\* classify_pattern that asks for a known frequency
ClassifyPatternKnownFrequency(row) ==
    LET gnomad_af == IF "gnomAD_AF" \in DOMAIN row THEN row["gnomAD_AF"] ELSE NA
        patterns ==
            IF IsHeterozygous(row["GT"])
            THEN (IF ~IsNa(gnomad_af) /\ Val(gnomad_af) <= AdCandidateMaxAf
                  THEN <<"AD_candidate">> ELSE <<>>)
                 \o (IF ~IsNa(gnomad_af) /\ Val(gnomad_af) <= CompHetCandidateMaxAf
                     THEN <<"CompHet_candidate">> ELSE <<>>)
            ELSE IF IsHomozygousAlt(row["GT"])
            THEN (IF ~IsNa(gnomad_af) /\ Val(gnomad_af) <= ArCandidateMaxAf
                  THEN <<"AR_candidate">> ELSE <<>>)
            ELSE <<>>
    IN  IF patterns # <<>> THEN Some(patterns) ELSE Some(<<"Not_candidate">>)
\* classify_pattern(row): the comma-joined tags, as the sequence of tags
ClassifyPattern(row) ==
    LET gnomad_af == IF "gnomAD_AF" \in DOMAIN row THEN row["gnomAD_AF"] ELSE NA
        patterns ==
            IF IsHeterozygous(row["GT"])
            THEN (IF IsNa(gnomad_af) \/ Val(gnomad_af) <= AdCandidateMaxAf
                  THEN <<"AD_candidate">> ELSE <<>>)
                 \o (IF IsNa(gnomad_af) \/ Val(gnomad_af) <= CompHetCandidateMaxAf
                     THEN <<"CompHet_candidate">> ELSE <<>>)
            ELSE IF IsHomozygousAlt(row["GT"])
            THEN (IF IsNa(gnomad_af) \/ Val(gnomad_af) <= ArCandidateMaxAf
                  THEN <<"AR_candidate">> ELSE <<>>)
            ELSE <<>>
    IN  IF patterns # <<>> THEN Some(patterns) ELSE Some(<<"Not_candidate">>)

\* df is NA (the default, self.df) or a reference to the caller's table
AnnotateInheritancePattern(heap, df) ==
    LET src == IF ~IsNa(df) THEN Val(df) ELSE "self.df"
        data == CopyRef(src)
        heap1 == Bind(heap, data, heap[src])
        heap2 == IF "GT" \notin heap1[data].columns
                 THEN SetColumn(heap1, data, "inheritance_patterns",
                                LAMBDA r : Some(<<"Unknown">>))
                 ELSE SetColumn(heap1, data, "inheritance_patterns", ClassifyPattern)
    IN  [heap |-> heap2, ret |-> heap2[data]]

---------------------------------------------------------------------------
(* Quality filtering of a loaded table *)

QualityRows ==
    [ QUAL : {NA, Some(20), Some(35), Some(50)},
      DP : {NA, Some(5), Some(15)},
      GQ : {Some(10), Some(30)} ]
QualityTables ==
    UNION {TablesOver(cols, QualityRows) : cols \in SUBSET {"QUAL", "DP", "GQ"}}

MinQualArgs == {NA, Some(30), Some(40)}
MinDepthArgs == {NA, Some(10)}
MinGqArgs == {NA, Some(20)}

\* no request has been made to the web application
WebIdle ==
    /\ user = NA
    /\ response = NA
    /\ job = NA
    /\ requests = <<>>
    /\ disk = FALSE
    /\ now = 0
    /\ served = <<>>

GenotypeIdle ==
    /\ gt_string = NA
    /\ parsed = NotCalled
    /\ het = NotCalled
    /\ hom = NotCalled
    /\ WebIdle

\* parser = TSVVariantParser(path), for a file holding one of the tables
LoadedParser(tables) ==
    /\ GenotypeIdle
    /\ parser_df \in tables
    /\ df0 = parser_df
    /\ model_df = NoObject
    /\ call = NoCallYet
    /\ ret = NoObject
    /\ parsers = <<>>

CallFilterByQuality ==
    \E min_qual \in MinQualArgs, min_depth \in MinDepthArgs, min_gq \in MinGqArgs :
        /\ ret' = FilterByQuality(parser_df, min_qual, min_depth, min_gq)
        /\ call' = [op |-> "filter_by_quality", args |-> <<min_qual, min_depth, min_gq>>]
        /\ UNCHANGED <<parser_df, model_df, df0, parsers, gtvars, webvars>>

\* filter_by_quality(min_qual=a) of a parser over the table, then
\* filter_by_quality(min_qual=b) of a parser over the table the first returned
CallFilterByQualityTwice ==
    \E a \in MinQualArgs \ {NA}, b \in MinQualArgs \ {NA} :
        /\ ret' = FilterByQuality(FilterByQuality(parser_df, a, NA, NA), b, NA, NA)
        /\ call' = [op |-> "filter_by_quality twice", args |-> <<a, b>>]
        /\ UNCHANGED <<parser_df, model_df, df0, parsers, gtvars, webvars>>

NextQuality ==
    \/ CallFilterByQuality
    \/ CallFilterByQualityTwice

SpecQuality == LoadedParser(QualityTables) /\ [][NextQuality]_vars

---------------------------------------------------------------------------
(* Frequency filtering of a loaded table; frequencies are in units of 1e-4 *)

FrequencyRows ==
    [ gnomAD_AF : {NA, Some(5), Some(50), Some(200)},
      AF : {NA, Some(5), Some(50)} ]
FrequencyTables ==
    UNION {TablesOver(cols, FrequencyRows) : cols \in SUBSET {"gnomAD_AF", "AF"}}

MaxGnomadAfArgs == {NA, Some(10), Some(100)}
MaxAfArgs == {NA, Some(10)}

CallFilterByFrequency ==
    \E max_gnomad_af \in MaxGnomadAfArgs, max_af \in MaxAfArgs :
        /\ ret' = FilterByFrequency(parser_df, max_gnomad_af, max_af)
        /\ call' = [op |-> "filter_by_frequency", args |-> <<max_gnomad_af, max_af>>]
        /\ UNCHANGED <<parser_df, model_df, df0, parsers, gtvars, webvars>>

SpecFrequency == LoadedParser(FrequencyTables) /\ [][CallFilterByFrequency]_vars

---------------------------------------------------------------------------
(* Gene filtering of a loaded table *)

GeneA == <<"A">>
GeneB == <<"B">>
GeneAB == <<"A", "B">>
GeneStrings ==
    { GeneA, GeneB, GeneAB, <<>>, <<" ", "B">>,
      <<"A", ",", "B">>, <<"A", ",", " ", "B">>, <<"A", "B", ",", "B">>, <<"A", ",">> }
GeneRows == [GENE : {NA} \cup {Some(g) : g \in GeneStrings}]
GeneTables == UNION {TablesOver(cols, GeneRows) : cols \in SUBSET {"GENE"}}

GeneListArgs == {{}, {GeneA}, {GeneB}, {GeneA, GeneB}, {GeneAB}, {<<>>}, {<<" ", "B">>}}

CallFilterByGenes ==
    \E gene_list \in GeneListArgs :
        /\ ret' = FilterByGenes(parser_df, gene_list)
        /\ call' = [op |-> "filter_by_genes", args |-> <<gene_list>>]
        /\ UNCHANGED <<parser_df, model_df, df0, parsers, gtvars, webvars>>

CallGetGeneList ==
    /\ ret' = GetGeneList(parser_df)
    /\ call' = [op |-> "get_gene_list", args |-> <<>>]
    /\ UNCHANGED <<parser_df, model_df, df0, parsers, gtvars, webvars>>

SpecGenes == LoadedParser(GeneTables) /\ [][CallFilterByGenes \/ CallGetGeneList]_vars

---------------------------------------------------------------------------
(* Chromosome selection on a loaded table *)

Chrom1 == <<"1">>
Chrom2 == <<"2">>
ChromNames == {Chrom1, Chrom2}
ChromRows ==
    [CHROM : {NA} \cup {Some(c) : c \in ChromNames} \cup {Some(Chr \o c) : c \in ChromNames}]
ChromTables == UNION {TablesOver(cols, ChromRows) : cols \in SUBSET {"CHROM"}}

ChromosomeArgs == ChromNames \cup {Chr \o c : c \in ChromNames}

CallGetVariantsByChromosome ==
    \E chromosome \in ChromosomeArgs :
        /\ ret' = GetVariantsByChromosome(parser_df, chromosome)
        /\ call' = [op |-> "get_variants_by_chromosome", args |-> <<chromosome>>]
        /\ UNCHANGED <<parser_df, model_df, df0, parsers, gtvars, webvars>>

SpecChrom == LoadedParser(ChromTables) /\ [][CallGetVariantsByChromosome]_vars

---------------------------------------------------------------------------
(* The loaded sample: a parser and a model filter over the parser's table *)

HetGt == <<"0", "/", "1">>
HomAltGt == <<"1", "/", "1">>
SampleRows ==
    [ CHROM : {Some(Chrom1)}, POS : {Some(100), Some(200)},
      REF : {Some(<<"A">>)}, ALT : {Some(<<"G">>)},
      GT : {Some(HetGt), Some(HomAltGt)}, GENE : {Some(GeneA), Some(GeneB)},
      gnomAD_AF : {Some(5)}, QUAL : {Some(50)}, IMPACT : {Some("HIGH")} ]
SampleColumns ==
    {"CHROM", "POS", "REF", "ALT", "GT", "GENE", "gnomAD_AF", "QUAL", "IMPACT"}
SampleTables ==
    UNION {TablesOver(SampleColumns \ without, SampleRows) :
               without \in {{}, {"GT"}, {"GENE"}, {"GT", "GENE"}}}

ModelMaxAfArgs == {DominantMaxGnomadAf, RecessiveMaxGnomadAf}
ModelMinQualArgs == {DefaultMinQual}
ModelImpactsArgs == {DefaultImpacts, {Some("LOW")}}
ImpactsArgs == {DefaultImpacts, {Some("LOW")}}

\* parser = TSVVariantParser(path); model_filter = GeneticModelFilter(parser.df)
LoadedModelFilter(tables) ==
    /\ GenotypeIdle
    /\ parser_df \in tables
    /\ df0 = parser_df
    /\ model_df = ConstructModelFilter(parser_df)
    /\ call = NoCallYet
    /\ ret = NoObject
    /\ parsers = <<>>

Init == LoadedModelFilter(SampleTables)

CallFilterByImpact ==
    \E impacts \in ImpactsArgs :
        /\ ret' = FilterByImpact(parser_df, impacts)
        /\ call' = [op |-> "filter_by_impact", args |-> <<impacts>>]
        /\ UNCHANGED <<parser_df, model_df, df0, parsers, gtvars, webvars>>

\* a GeneticModelFilter was constructed
HasModelFilter == "none" \notin DOMAIN model_df /\ ~IsRaised(model_df)

CallFilterAutosomalDominant ==
    /\ HasModelFilter
    /\ \E max_gnomad_af \in ModelMaxAfArgs, min_qual \in ModelMinQualArgs,
          impacts \in ModelImpactsArgs :
        /\ ret' = FilterAutosomalDominant(model_df, max_gnomad_af, min_qual, impacts)
        /\ call' = [op |-> "filter_autosomal_dominant",
                    args |-> <<max_gnomad_af, min_qual, impacts>>]
    /\ UNCHANGED <<parser_df, model_df, df0, parsers, gtvars, webvars>>

CallFilterAutosomalRecessive ==
    /\ HasModelFilter
    /\ \E max_gnomad_af \in ModelMaxAfArgs, min_qual \in ModelMinQualArgs,
          impacts \in ModelImpactsArgs :
        /\ ret' = FilterAutosomalRecessive(model_df, max_gnomad_af, min_qual, impacts)
        /\ call' = [op |-> "filter_autosomal_recessive",
                    args |-> <<max_gnomad_af, min_qual, impacts>>]
    /\ UNCHANGED <<parser_df, model_df, df0, parsers, gtvars, webvars>>

CallFilterCompoundHeterozygous ==
    /\ HasModelFilter
    /\ \E max_gnomad_af \in ModelMaxAfArgs, min_qual \in ModelMinQualArgs,
          impacts \in ModelImpactsArgs :
        LET out == FilterCompoundHeterozygous(HeapOf(parser_df, model_df),
                                              max_gnomad_af, min_qual, impacts)
        IN  /\ ret' = out.ret
            /\ parser_df' = out.heap["parser.df"]
            /\ model_df' = out.heap["self.df"]
            /\ call' = [op |-> "filter_compound_heterozygous",
                        args |-> <<max_gnomad_af, min_qual, impacts>>]
    /\ UNCHANGED <<df0, parsers, gtvars, webvars>>

CallAnnotateInheritancePattern ==
    /\ HasModelFilter
    /\ \E df \in {NA, Some("parser.df")} :
        LET out == AnnotateInheritancePattern(HeapOf(parser_df, model_df), df)
        IN  /\ ret' = out.ret
            /\ parser_df' = out.heap["parser.df"]
            /\ model_df' = out.heap["self.df"]
            /\ call' = [op |-> "annotate_inheritance_pattern", args |-> <<df>>]
    /\ UNCHANGED <<df0, parsers, gtvars, webvars>>

Next ==
    \/ CallFilterByQuality
    \/ CallFilterByQualityTwice
    \/ CallFilterByImpact
    \/ CallFilterByFrequency
    \/ CallFilterByGenes
    \/ CallGetVariantsByChromosome
    \/ CallFilterAutosomalDominant
    \/ CallFilterAutosomalRecessive
    \/ CallFilterCompoundHeterozygous
    \/ CallAnnotateInheritancePattern

Spec == Init /\ [][Next]_vars

---------------------------------------------------------------------------
(* The dominant and recessive filters and the annotation of a loaded sample *)

PhasedNoCallGt == <<".", "|", ".">>
\* GT=0/1, gnomAD_AF=0.0005, QUAL=35, IMPACT=HIGH
DominantRow ==
    [ CHROM |-> Some(Chrom1), POS |-> Some(100), REF |-> Some(<<"A">>),
      ALT |-> Some(<<"G">>), GT |-> Some(HetGt), gnomAD_AF |-> Some(5),
      QUAL |-> Some(35), IMPACT |-> Some("HIGH") ]
\* that row and the rows differing from it in the frequency, the quality or
\* the impact, each with a heterozygous and a homozygous-alternate genotype
CombinationRows ==
    { [r EXCEPT !["GT"] = gt] :
        r \in {DominantRow, [DominantRow EXCEPT !["QUAL"] = Some(20)],
                [DominantRow EXCEPT !["IMPACT"] = Some("LOW")]}
              \cup {[DominantRow EXCEPT !["gnomAD_AF"] = af] :
                        af \in {NA, Some(50), Some(200)}},
        gt \in {Some(HetGt), Some(HomAltGt)} }
\* GT=1/1, gnomAD_AF=0.02, QUAL=40, IMPACT=MODERATE
CommonHomAltRow ==
    [DominantRow EXCEPT !["GT"] = Some(HomAltGt), !["gnomAD_AF"] = Some(200),
                        !["QUAL"] = Some(40), !["IMPACT"] = Some("MODERATE")]
\* a phased no-call, frequency missing
PhasedNoCallRow ==
    [DominantRow EXCEPT !["GT"] = Some(PhasedNoCallGt), !["gnomAD_AF"] = NA]
InheritanceRows == CombinationRows \cup {CommonHomAltRow, PhasedNoCallRow}
InheritanceColumns ==
    {"CHROM", "POS", "REF", "ALT", "GT", "gnomAD_AF", "QUAL", "IMPACT"}
InheritanceTables ==
    UNION {TablesOver(InheritanceColumns \ without, InheritanceRows) :
               without \in {{}, {"gnomAD_AF"}, {"QUAL"}, {"IMPACT"},
                            {"gnomAD_AF", "QUAL", "IMPACT"}, {"GT"}}}

NextInheritance ==
    \/ CallFilterAutosomalDominant
    \/ CallFilterAutosomalRecessive
    \/ CallAnnotateInheritancePattern

SpecInheritance == LoadedModelFilter(InheritanceTables) /\ [][NextInheritance]_vars

---------------------------------------------------------------------------
(* The compound-heterozygous filter of a loaded sample *)

\* most rows of a table whose rows differ in gene and position only
MaxGeneRows == 4

Brca1 == <<"B", "R", "C", "A", "1">>
Tp53 == <<"T", "P", "5", "3">>
Brca1Tp53 == Brca1 \o <<",">> \o Tp53
\* GT=0/1, GENE=BRCA1, gnomAD_AF missing, QUAL=50, IMPACT=HIGH
CandidateRow ==
    [ CHROM |-> Some(Chrom1), POS |-> Some(100), REF |-> Some(<<"A">>),
      ALT |-> Some(<<"G">>), GT |-> Some(HetGt), GENE |-> Some(Brca1),
      gnomAD_AF |-> NA, QUAL |-> Some(50), IMPACT |-> Some("HIGH") ]
\* that row and the rows failing one of the four predicates, in a single-gene
\* and in a multi-gene field, at two positions; and a row without a gene
CompoundHetRows ==
    { [r EXCEPT !["GENE"] = gene, !["POS"] = pos] :
        r \in {CandidateRow, [CandidateRow EXCEPT !["gnomAD_AF"] = Some(50)],
                [CandidateRow EXCEPT !["QUAL"] = Some(20)],
                [CandidateRow EXCEPT !["IMPACT"] = Some("LOW")],
                [CandidateRow EXCEPT !["GT"] = Some(HomAltGt)]},
        gene \in {Some(Brca1), Some(Brca1Tp53)},
        pos \in {Some(100), Some(200)} }
    \cup {[CandidateRow EXCEPT !["GENE"] = NA]}
\* candidate rows of two genes at two positions
GenePosRows ==
    { [CandidateRow EXCEPT !["GENE"] = gene, !["POS"] = pos] :
        gene \in {Some(Brca1), Some(Tp53)}, pos \in {Some(100), Some(200)} }
CompoundHetTables ==
    TablesOver(SampleColumns, CompoundHetRows)
    \cup TablesOver(SampleColumns \ {"gnomAD_AF", "QUAL", "IMPACT"}, CompoundHetRows)
    \cup {DataFrame(SampleColumns, q) : q \in SeqsUpTo(GenePosRows, MaxGeneRows)}

SpecCompoundHet ==
    LoadedModelFilter(CompoundHetTables) /\ [][CallFilterCompoundHeterozygous]_vars

---------------------------------------------------------------------------
(* A MultiSampleAnalyzer over the tables of up to MaxSamples samples *)

SampleIds == <<"A", "B", "C">>
LocusRows ==
    { [CHROM |-> Some(Chr \o Chrom1), POS |-> Some(100)],
      [CHROM |-> Some(Chr \o Chrom1), POS |-> Some(200)] }
\* tables of loci of one chromosome, a table with a locus of another
\* chromosome, and a table that has no POS column
LocusTables ==
    TablesOver({"CHROM", "POS"}, LocusRows)
    \cup {DataFrame({"CHROM", "POS"}, <<[CHROM |-> Some(Chr \o Chrom2), POS |-> Some(100)]>>),
          DataFrame({"CHROM"}, <<[CHROM |-> Some(Chr \o Chrom1)]>>)}

\* MultiSampleAnalyzer(sample_file_paths): one parser per sample, in dict order
InitAnalyzer ==
    /\ GenotypeIdle
    /\ parser_df = NoObject
    /\ model_df = NoObject
    /\ df0 = NoObject
    /\ call = NoCallYet
    /\ ret = NoObject
    /\ \E n \in 0..MaxSamples :
           parsers \in { [k \in 1..n |-> [sample_id |-> SampleIds[k], df |-> dfs[k]]] :
                           dfs \in [1..n -> LocusTables] }

CallFindSharedVariants ==
    \E min_samples \in {1, 2} :
        /\ ret' = FindSharedVariants(parsers, min_samples)
        /\ call' = [op |-> "find_shared_variants", args |-> <<min_samples>>]
        /\ UNCHANGED <<parser_df, model_df, df0, parsers, gtvars, webvars>>

CallFindUniqueVariants ==
    \E sample_id \in {SampleIds[k] : k \in 1..Len(SampleIds)} :
        /\ ret' = FindUniqueVariants(parsers, sample_id)
        /\ call' = [op |-> "find_unique_variants", args |-> <<sample_id>>]
        /\ UNCHANGED <<parser_df, model_df, df0, parsers, gtvars, webvars>>

NextAnalyzer ==
    \/ CallFindSharedVariants
    \/ CallFindUniqueVariants

SpecAnalyzer == InitAnalyzer /\ [][NextAnalyzer]_vars

---------------------------------------------------------------------------
(* Genotype helper calls on one token *)

InitGenotype ==
    /\ gt_string \in GtTokens
    /\ parsed = NotCalled
    /\ het = NotCalled
    /\ hom = NotCalled
    /\ parser_df = NoObject
    /\ model_df = NoObject
    /\ df0 = NoObject
    /\ call = NoCallYet
    /\ ret = NoObject
    /\ parsers = <<>>
    /\ WebIdle

CallParseGenotype ==
    /\ parsed = NotCalled
    /\ parsed' = ParseGenotype(gt_string)
    /\ UNCHANGED <<gt_string, het, hom, dfvars>>

CallIsHeterozygous ==
    /\ het = NotCalled
    /\ het' = Some(IsHeterozygous(gt_string))
    /\ UNCHANGED <<gt_string, parsed, hom, dfvars>>

CallIsHomozygousAlt ==
    /\ hom = NotCalled
    /\ hom' = Some(IsHomozygousAlt(gt_string))
    /\ UNCHANGED <<gt_string, parsed, het, dfvars>>

NextGenotype ==
    \/ CallParseGenotype
    \/ CallIsHeterozygous
    \/ CallIsHomozygousAlt

SpecGenotype == InitGenotype /\ [][NextGenotype]_vars

---------------------------------------------------------------------------
(* Claims about the genotype parser (checked under SpecGenotype) *)

\* the positions of a separator, '/' or '|', in a genotype string
SepPositions(s) == {i \in 1..Len(s) : s[i] \in {"/", "|"}}
HasTwoParts(s) == Cardinality(SepPositions(s)) = 1
FirstPart(s) == SubSeq(s, 1, (CHOOSE i \in SepPositions(s) : TRUE) - 1)
SecondPart(s) == SubSeq(s, (CHOOSE i \in SepPositions(s) : TRUE) + 1, Len(s))
WithSeparator(s, sep) == [i \in 1..Len(s) |-> IF s[i] \in {"/", "|"} THEN sep ELSE s[i]]
\* the no-call token written with either separator
IsNoCall(gt) == IsNa(gt) \/ WithSeparator(Val(gt), "/") = NoCall

\* C1: parse_genotype gives the same result for a token written with '/' and
\* the same token written with '|', for every token, the no-call token included.
C1_SeparatorInsensitive ==
    (parsed # NotCalled /\ ~IsNa(gt_string)) =>
        /\ parsed = ParseGenotype(Some(WithSeparator(Val(gt_string), "/")))
        /\ parsed = ParseGenotype(Some(WithSeparator(Val(gt_string), "|")))

\* C2: parse_genotype returns (None, None) for a missing input, for the literal
\* './.' and for every string that does not split into exactly two parts on the
\* separator; for every other input it returns the two parts; it always returns.
C2_ParseGenotypeResult ==
    parsed # NotCalled =>
        IF IsNa(gt_string) \/ Val(gt_string) = NoCall \/ ~HasTwoParts(Val(gt_string))
        THEN parsed = NoneNone
        ELSE parsed = <<Some(FirstPart(Val(gt_string))), Some(SecondPart(Val(gt_string)))>>

C2_Witness ==
    /\ gt_string = Some(<<"0", "|", "1">>)
    /\ parsed = <<Some(<<"0">>), Some(<<"1">>)>>

\* C3: is_heterozygous is true iff the token parses into two alleles that
\* differ and of which at least one is "0"; false on a null or unparseable token.
C3_IsHeterozygous ==
    het # NotCalled =>
        Val(het) = ( /\ ~IsNa(gt_string)
                     /\ HasTwoParts(Val(gt_string))
                     /\ FirstPart(Val(gt_string)) # SecondPart(Val(gt_string))
                     /\ Zero \in {FirstPart(Val(gt_string)), SecondPart(Val(gt_string))} )

C3_Witness ==
    /\ gt_string = Some(<<"1", "/", "0">>)
    /\ het = Some(TRUE)

\* C4: is_homozygous_alt is true iff the token parses into two equal alleles
\* other than "0"; a no-call genotype ('./.' or missing, written with either
\* separator) is neither heterozygous nor homozygous-alternate.
C4_IsHomozygousAltNoCall ==
    /\ hom # NotCalled =>
        Val(hom) = ( /\ ~IsNoCall(gt_string)
                     /\ HasTwoParts(Val(gt_string))
                     /\ FirstPart(Val(gt_string)) = SecondPart(Val(gt_string))
                     /\ FirstPart(Val(gt_string)) # Zero )
    /\ (IsNoCall(gt_string) /\ het # NotCalled) => Val(het) = FALSE
    /\ (IsNoCall(gt_string) /\ hom # NotCalled) => Val(hom) = FALSE

---------------------------------------------------------------------------
(* Claims about filter_by_quality (checked under SpecQuality) *)

\* the column each threshold of filter_by_quality constrains, in argument order
QualityColumn == <<"QUAL", "DP", "GQ">>

\* a row meets every threshold that is supplied and whose column exists
MeetsThresholds(r, cols, thresholds) ==
    \A k \in 1..3 :
        (~IsNa(thresholds[k]) /\ QualityColumn[k] \in cols) =>
            (~IsNa(r[QualityColumn[k]]) /\ Val(r[QualityColumn[k]]) >= Val(thresholds[k]))

\* C6: filter_by_quality returns exactly the rows that meet every supplied
\* threshold whose column exists, in their order and with all columns; with no
\* threshold supplied the returned table equals the input row for row.
C6_FilterByQuality ==
    call.op = "filter_by_quality" =>
        /\ ret = DataFrame(parser_df.columns,
                           SelectSeq(parser_df.rows,
                                     LAMBDA r : MeetsThresholds(r, parser_df.columns, call.args)))
        /\ call.args = <<NA, NA, NA>> => ret = parser_df

C6_Witness ==
    /\ call.op = "filter_by_quality"
    /\ call.args = <<Some(30), Some(10), NA>>
    /\ parser_df.columns = {"QUAL", "DP", "GQ"}
    /\ Len(parser_df.rows) = 2
    /\ parser_df.rows[1]["QUAL"] = Some(35) /\ parser_df.rows[1]["DP"] = Some(5)
    /\ parser_df.rows[2]["QUAL"] = Some(50) /\ parser_df.rows[2]["DP"] = Some(15)
    /\ ret.rows = <<parser_df.rows[2]>>

\* C7: for thresholds a <= b, filter_by_quality(min_qual=a) followed by
\* filter_by_quality(min_qual=b) on its result returns the same rows in the same
\* order as filter_by_quality(min_qual=b) on the table itself.
C7_QualityFiltersCompose ==
    (call.op = "filter_by_quality twice" /\ Val(call.args[1]) <= Val(call.args[2])) =>
        ret = FilterByQuality(parser_df, call.args[2], NA, NA)

C7_Witness ==
    /\ call.op = "filter_by_quality twice"
    /\ call.args = <<Some(30), Some(40)>>
    /\ "QUAL" \in parser_df.columns
    /\ Len(parser_df.rows) = 2
    /\ parser_df.rows[1]["QUAL"] = Some(35)
    /\ parser_df.rows[2]["QUAL"] = Some(50)
    /\ ret.rows = <<parser_df.rows[2]>>

---------------------------------------------------------------------------
(* Claims about filter_by_frequency (checked under SpecFrequency) *)

FrequencyColumn == <<"gnomAD_AF", "AF">>

\* C8: filter_by_frequency returns exactly the rows whose frequency, for each
\* supplied threshold whose column exists, is missing or <= the threshold; a
\* row with a missing frequency is never excluded by that threshold.
C8_FilterByFrequency ==
    call.op = "filter_by_frequency" =>
        ret = DataFrame(parser_df.columns,
                  SelectSeq(parser_df.rows, LAMBDA r :
                      \A k \in 1..2 :
                          (~IsNa(call.args[k]) /\ FrequencyColumn[k] \in parser_df.columns) =>
                              \/ r[FrequencyColumn[k]] = NA
                              \/ Val(r[FrequencyColumn[k]]) <= Val(call.args[k])))

C8_Witness ==
    /\ call.op = "filter_by_frequency"
    /\ call.args = <<Some(10), NA>>
    /\ parser_df.columns = {"gnomAD_AF", "AF"}
    /\ Len(parser_df.rows) = 2
    /\ parser_df.rows[1]["gnomAD_AF"] = Some(50)
    /\ parser_df.rows[2]["gnomAD_AF"] = NA
    /\ ret.rows = <<parser_df.rows[2]>>

---------------------------------------------------------------------------
(* Claims about filter_by_genes (checked under SpecGenes) *)

\* the gene symbols of a field: its maximal comma-free stretches
SymbolsOf(field) ==
    { SubSeq(field, i, j - 1) :
        <<i, j>> \in { p \in (1..(Len(field) + 1)) \X (1..(Len(field) + 1)) :
                        /\ p[1] <= p[2]
                        /\ (p[1] = 1 \/ field[p[1] - 1] = ",")
                        /\ (p[2] = Len(field) + 1 \/ field[p[2]] = ",")
                        /\ \A k \in p[1]..(p[2] - 1) : field[k] # "," } }

\* C9: filter_by_genes returns exactly the rows whose gene field, split on
\* commas, contains a symbol that is in gene_list; rows with a null gene are
\* excluded; without a GENE column the result is an empty table.
C9_FilterByGenes ==
    call.op = "filter_by_genes" =>
        IF "GENE" \in parser_df.columns
        THEN ret = DataFrame(parser_df.columns,
                       SelectSeq(parser_df.rows, LAMBDA r :
                           /\ r["GENE"] # NA
                           /\ SymbolsOf(Val(r["GENE"])) \cap call.args[1] # {}))
        ELSE ret = EmptyDataFrame

C9_Witness ==
    /\ call.op = "filter_by_genes"
    /\ call.args = <<{GeneB}>>
    /\ "GENE" \in parser_df.columns
    /\ Len(parser_df.rows) = 2
    /\ parser_df.rows[1]["GENE"] = Some(<<"A", "B", ",", "B">>)
    /\ parser_df.rows[2]["GENE"] = Some(GeneAB)
    /\ ret.rows = <<parser_df.rows[1]>>

---------------------------------------------------------------------------
(* Claims about get_variants_by_chromosome (checked under SpecChrom) *)

HasChrPrefix(c) == Len(c) >= 3 /\ SubSeq(c, 1, 3) = Chr
Unprefixed(c) == IF HasChrPrefix(c) THEN SubSeq(c, 4, Len(c)) ELSE c

\* C10: the prefixed and un-prefixed forms of a chromosome name select the same
\* rows: called with c or with 'chr' + c, the result is all rows whose stored
\* chromosome is c or 'chr' + c.
C10_ChromosomeFormsEquivalent ==
    (call.op = "get_variants_by_chromosome" /\ "CHROM" \in parser_df.columns) =>
        LET c == Unprefixed(call.args[1])
        IN  ret = DataFrame(parser_df.columns,
                      SelectSeq(parser_df.rows, LAMBDA r :
                          r["CHROM"] \in {Some(c), Some(Chr \o c)}))

---------------------------------------------------------------------------
(* Claims about the tables the operations are given (checked under Spec) *)

AddedColumns == {"variants_in_gene", "inheritance_patterns"}

\* C5: after any sequence of filter and inheritance operations the table held
\* by the parser, the table held by the model filter and the table the caller
\* passed in have exactly the rows, columns and values they had before the
\* first call; no 'variants_in_gene' or 'inheritance_patterns' column appears.
C5_InputTablesUnchanged ==
    /\ parser_df = df0
    /\ parser_df.columns \cap AddedColumns = {}
    /\ HasModelFilter =>
        /\ model_df = df0
        /\ model_df.columns \cap AddedColumns = {}

C5_Witness ==
    /\ call.op = "annotate_inheritance_pattern"
    /\ call.args = <<Some("parser.df")>>
    /\ Len(ret.rows) = 2
    /\ "inheritance_patterns" \in ret.columns
    /\ ret.rows[1]["inheritance_patterns"] = Some(<<"AD_candidate", "CompHet_candidate">>)
    /\ parser_df = df0

---------------------------------------------------------------------------
(* Claims about the missing-column errors of the models (checked under Spec) *)

InheritanceFilters ==
    {"filter_autosomal_dominant", "filter_autosomal_recessive",
     "filter_compound_heterozygous"}

\* C11: each of the three inheritance filters, called on a table without a GT
\* column, raises the error that names the GT column and returns no table,
\* also filter_compound_heterozygous on a table that lacks GENE as well.
C11_MissingGtNamesGt ==
    (call.op \in InheritanceFilters /\ "GT" \notin model_df.columns) =>
        ret = Raised(GtNotFound)

\* C11 as amended: without a GT column each of the three filters raises a
\* missing-column error and returns no table; the error names the GT column,
\* except that filter_compound_heterozygous on a table that lacks GENE as well
\* names the GENE column.
C11_MissingColumnError ==
    (call.op \in InheritanceFilters /\ "GT" \notin model_df.columns) =>
        /\ IsRaised(ret)
        /\ ret.rows = <<>> /\ ret.columns = {}
        /\ ret.error = IF /\ call.op = "filter_compound_heterozygous"
                          /\ "GENE" \notin model_df.columns
                       THEN GeneNotFound
                       ELSE GtNotFound

C11_Witness ==
    /\ call.op = "filter_compound_heterozygous"
    /\ model_df.columns = SampleColumns \ {"GT", "GENE"}
    /\ Len(model_df.rows) = 2
    /\ ret = Raised(GeneNotFound)

---------------------------------------------------------------------------
(* Claims about the dominant and recessive filters and the annotation      *)
(* (checked under SpecInheritance)                                         *)

\* heterozygous: two alleles that differ, at least one of them "0"
Heterozygous(gt) ==
    /\ ~IsNoCall(gt)
    /\ HasTwoParts(Val(gt))
    /\ FirstPart(Val(gt)) # SecondPart(Val(gt))
    /\ Zero \in {FirstPart(Val(gt)), SecondPart(Val(gt))}
\* homozygous-alternate: two equal alleles other than "0"; a no-call is neither
HomozygousAlternate(gt) ==
    /\ ~IsNoCall(gt)
    /\ HasTwoParts(Val(gt))
    /\ FirstPart(Val(gt)) = SecondPart(Val(gt))
    /\ FirstPart(Val(gt)) # Zero

\* the three per-row predicates; args = <<max_gnomad_af, min_qual, impacts>>
PassesStage(stage, r, cols, args) ==
    CASE stage = "frequency" ->
             \/ "gnomAD_AF" \notin cols
             \/ r["gnomAD_AF"] = NA
             \/ Val(r["gnomAD_AF"]) <= args[1]
      [] stage = "quality" ->
             \/ "QUAL" \notin cols
             \/ (r["QUAL"] # NA /\ Val(r["QUAL"]) >= args[2])
      [] stage = "impact" ->
             \/ "IMPACT" \notin cols
             \/ r["IMPACT"] \in args[3]
Stages == {"frequency", "quality", "impact"}
PassesAll(r, cols, args) == \A stage \in Stages : PassesStage(stage, r, cols, args)
\* one stage applied to a sequence of rows
ApplyStage(stage, rows, cols, args) ==
    SelectSeq(rows, LAMBDA r : PassesStage(stage, r, cols, args))
StageOrders == {o \in [1..3 -> Stages] : \A i, j \in 1..3 : o[i] = o[j] => i = j}

\* C12: filter_autosomal_dominant returns exactly the heterozygous rows that
\* pass the frequency (absent column or missing value passes), quality (absent
\* column passes) and impact (absent column passes) predicates, and the same
\* rows result from applying the three stages in any order after the
\* heterozygous selection.
C12_AutosomalDominant ==
    (call.op = "filter_autosomal_dominant" /\ "GT" \in model_df.columns) =>
        LET cols == model_df.columns
            hets == SelectSeq(model_df.rows, LAMBDA r : Heterozygous(r["GT"]))
        IN  /\ ret = DataFrame(cols, SelectSeq(model_df.rows, LAMBDA r :
                          Heterozygous(r["GT"]) /\ PassesAll(r, cols, call.args)))
            /\ \A o \in StageOrders :
                   ret.rows = ApplyStage(o[3], ApplyStage(o[2],
                                  ApplyStage(o[1], hets, cols, call.args),
                                  cols, call.args), cols, call.args)

\* defaults on the two-row table: the 0/1 row is kept, the 1/1 row is dropped
C12_Witness ==
    /\ call.op = "filter_autosomal_dominant"
    /\ call.args = <<DominantMaxGnomadAf, DefaultMinQual, DefaultImpacts>>
    /\ model_df = DataFrame(InheritanceColumns, <<DominantRow, CommonHomAltRow>>)
    /\ ret.rows = <<DominantRow>>

\* C13: filter_autosomal_recessive returns exactly the homozygous-alternate
\* rows that pass the same frequency, quality and impact predicates; with the
\* default ceiling 0.01 the row GT=1/1, gnomAD_AF=0.02 is not returned; no
\* heterozygous row is returned.
C13_AutosomalRecessive ==
    (call.op = "filter_autosomal_recessive" /\ "GT" \in model_df.columns) =>
        /\ ret = DataFrame(model_df.columns, SelectSeq(model_df.rows, LAMBDA r :
                      /\ HomozygousAlternate(r["GT"])
                      /\ PassesAll(r, model_df.columns, call.args)))
        /\ \A i \in 1..Len(ret.rows) : ~Heterozygous(ret.rows[i]["GT"])
        /\ call.args[1] = RecessiveMaxGnomadAf =>
               \A i \in 1..Len(ret.rows) :
                   ~("gnomAD_AF" \in ret.columns /\ ret.rows[i]["gnomAD_AF"] = Some(200))

Tag(row) == Val(row["inheritance_patterns"])
\* the frequency of a row is missing or at most the ceiling
FrequencyWithin(r, ceiling) ==
    \/ "gnomAD_AF" \notin DOMAIN r
    \/ r["gnomAD_AF"] = NA
    \/ Val(r["gnomAD_AF"]) <= ceiling
\* the table annotate_inheritance_pattern was given: df, or self.df by default
Annotated == IF call.args[1] = NA THEN model_df ELSE parser_df

\* C17: annotate_inheritance_pattern labels each row on its own: AD_candidate
\* iff heterozygous and frequency missing or <= 0.001, CompHet_candidate iff
\* heterozygous and frequency missing or <= 0.01, AR_candidate iff
\* homozygous-alternate and frequency missing or <= 0.01; the label joins the
\* matching tags in that order, is Not_candidate when none matches and Unknown
\* on every row when there is no GT column; rows keep their number and order.
C17_AnnotateInheritancePattern ==
    call.op = "annotate_inheritance_pattern" =>
        /\ ret.columns = Annotated.columns \cup {"inheritance_patterns"}
        /\ Len(ret.rows) = Len(Annotated.rows)
        /\ \A i \in 1..Len(ret.rows) :
            LET r == Annotated.rows[i]
                tags == (IF Heterozygous(r["GT"]) /\ FrequencyWithin(r, 10)
                         THEN <<"AD_candidate">> ELSE <<>>)
                     \o (IF Heterozygous(r["GT"]) /\ FrequencyWithin(r, 100)
                         THEN <<"CompHet_candidate">> ELSE <<>>)
                     \o (IF HomozygousAlternate(r["GT"]) /\ FrequencyWithin(r, 100)
                         THEN <<"AR_candidate">> ELSE <<>>)
            IN  /\ \A c \in Annotated.columns : ret.rows[i][c] = r[c]
                /\ Tag(ret.rows[i]) =
                       IF "GT" \notin Annotated.columns THEN <<"Unknown">>
                       ELSE IF tags = <<>> THEN <<"Not_candidate">>
                       ELSE tags

---------------------------------------------------------------------------
(* Claims about filter_compound_heterozygous (checked under SpecCompoundHet) *)

\* the positions of the output rows with the gene value of output row i
SameGeneRows(i) == {j \in 1..Len(ret.rows) : ret.rows[j]["GENE"] = ret.rows[i]["GENE"]}

\* C14: on every output row of filter_compound_heterozygous, variants_in_gene
\* equals the number of output rows with that row's gene value, and is >= 2.
C14_VariantsInGene ==
    (call.op = "filter_compound_heterozygous" /\ ~IsRaised(ret)) =>
        \A i \in 1..Len(ret.rows) :
            /\ ret.rows[i]["variants_in_gene"] = Some(Cardinality(SameGeneRows(i)))
            /\ Val(ret.rows[i]["variants_in_gene"]) >= 2

C14_Witness ==
    /\ call.op = "filter_compound_heterozygous"
    /\ Len(ret.rows) = 4
    /\ {ret.rows[i]["GENE"] : i \in 1..4} = {Some(Brca1), Some(Tp53)}
    /\ \A i \in 1..4 : ret.rows[i]["variants_in_gene"] = Some(2)

\* a candidate: heterozygous and passing frequency, quality and impact
Candidate(r, cols, args) == Heterozygous(r["GT"]) /\ PassesAll(r, cols, args)
\* the number of candidate rows of the table with the raw gene field of r
CandidatesSharingGene(r, df, args) ==
    Cardinality({j \in 1..Len(df.rows) :
                    /\ Candidate(df.rows[j], df.columns, args)
                    /\ df.rows[j]["GENE"] = r["GENE"]})
\* how often the row x occurs in a sequence of rows
Occurrences(x, rows) == Cardinality({i \in 1..Len(rows) : rows[i] = x})

\* C15: the output of filter_compound_heterozygous holds exactly the candidate
\* rows whose raw gene field is shared by at least two candidate rows, each
\* tagged with that number; a multi-gene field is a group of its own.
C15_CompoundHetRows ==
    (call.op = "filter_compound_heterozygous" /\ ~IsRaised(ret)) =>
        LET expected ==
                SelectSeq(model_df.rows, LAMBDA r :
                    /\ Candidate(r, model_df.columns, call.args)
                    /\ r["GENE"] # NA
                    /\ CandidatesSharingGene(r, model_df, call.args) >= 2)
            tagged == [i \in 1..Len(expected) |->
                          [c \in model_df.columns \cup {"variants_in_gene"} |->
                              IF c = "variants_in_gene"
                              THEN Some(CandidatesSharingGene(expected[i], model_df, call.args))
                              ELSE expected[i][c]]]
        IN  /\ ret.columns = model_df.columns \cup {"variants_in_gene"}
            /\ Len(ret.rows) = Len(tagged)
            /\ \A i \in 1..Len(tagged) :
                   Occurrences(tagged[i], ret.rows) = Occurrences(tagged[i], tagged)

\* two candidate rows of BRCA1 are both returned with variants_in_gene = 2,
\* from a table of the default size holding no other row
C15_Witness ==
    /\ call.op = "filter_compound_heterozygous"
    /\ call.args = <<CompoundHetMaxGnomadAf, DefaultMinQual, DefaultImpacts>>
    /\ model_df = DataFrame(SampleColumns,
                            <<CandidateRow, [CandidateRow EXCEPT !["POS"] = Some(200)]>>)
    /\ Len(ret.rows) = 2
    /\ \A i \in 1..2 : /\ ret.rows[i]["GENE"] = Some(Brca1)
                        /\ ret.rows[i]["variants_in_gene"] = Some(2)

\* C16: the output of filter_compound_heterozygous is sorted ascending by
\* (gene, position): of two consecutive rows the first has the smaller gene,
\* or the same gene and a position that is not larger.
C16_SortedByGenePos ==
    (call.op = "filter_compound_heterozygous" /\ ~IsRaised(ret)) =>
        \A i \in 1..(Len(ret.rows) - 1) :
            LET r1 == ret.rows[i]
                r2 == ret.rows[i + 1]
            IN  \/ StrLess(Val(r1["GENE"]), Val(r2["GENE"]))
                \/ (r1["GENE"] = r2["GENE"] /\ Val(r1["POS"]) <= Val(r2["POS"]))

C16_Witness ==
    /\ call.op = "filter_compound_heterozygous"
    /\ Len(model_df.rows) = 4
    /\ model_df.rows[1]["GENE"] = Some(Tp53) /\ model_df.rows[1]["POS"] = Some(200)
    /\ model_df.rows[2]["GENE"] = Some(Brca1) /\ model_df.rows[2]["POS"] = Some(200)
    /\ model_df.rows[3]["GENE"] = Some(Tp53) /\ model_df.rows[3]["POS"] = Some(100)
    /\ model_df.rows[4]["GENE"] = Some(Brca1) /\ model_df.rows[4]["POS"] = Some(100)
    /\ Len(ret.rows) = 4
    /\ [i \in 1..4 |-> <<ret.rows[i]["GENE"], ret.rows[i]["POS"]>>] =
           << <<Some(Brca1), Some(100)>>, <<Some(Brca1), Some(200)>>,
              <<Some(Tp53), Some(100)>>, <<Some(Tp53), Some(200)>> >>

---------------------------------------------------------------------------
(* Claims about the MultiSampleAnalyzer (checked under SpecAnalyzer) *)

\* the (chromosome, position) pairs of the enumerated rows
Loci == {Some(Chr \o Chrom1), Some(Chr \o Chrom2)} \X {Some(100), Some(200)}
\* the pair appears in the table
AppearsIn(locus, df) ==
    /\ HasLocusColumns(df)
    /\ \E i \in 1..Len(df.rows) : <<df.rows[i]["CHROM"], df.rows[i]["POS"]>> = locus
\* the samples whose table contains the pair
SamplesSharing(locus) == {k \in 1..Len(parsers) : AppearsIn(locus, parsers[k].df)}

\* C18: for any two sample tables, tables with several rows at one locus
\* included, find_shared_variants with min_samples = 2 has a record for
\* (chrom, pos) if and only if the pair appears in both tables.
C18_SharedIffInBoth ==
    (call.op = "find_shared_variants" /\ call.args = <<2>> /\ Len(parsers) = 2) =>
        \A locus \in Loci :
            (\E i \in 1..Len(ret.rows) :
                 <<ret.rows[i]["CHROM"], ret.rows[i]["POS"]>> = locus)
            <=> (AppearsIn(locus, parsers[1].df) /\ AppearsIn(locus, parsers[2].df))

\* C19: in every record of find_shared_variants num_samples is the number of
\* distinct samples whose table contains the locus, it never exceeds the number
\* of tables, and sample_ids names each of those samples exactly once; with
\* fewer than two tables the result is empty.
C19_NumSamples ==
    call.op = "find_shared_variants" =>
        /\ Len(parsers) < 2 => ret.rows = <<>>
        /\ \A i \in 1..Len(ret.rows) :
            LET sharing == SamplesSharing(<<ret.rows[i]["CHROM"], ret.rows[i]["POS"]>>)
                ids == Val(ret.rows[i]["sample_ids"])
            IN  /\ ret.rows[i]["num_samples"] = Some(Cardinality(sharing))
                /\ Val(ret.rows[i]["num_samples"]) <= Len(parsers)
                /\ Len(ids) = Cardinality(sharing)
                /\ \A k \in sharing :
                       Cardinality({j \in 1..Len(ids) : ids[j] = parsers[k].sample_id}) = 1

\* C20: find_unique_variants returns exactly the rows of the target sample's
\* table whose (chromosome, position) pair appears in no other sample's table,
\* and the target's full table when there is no other sample.
C20_UniqueVariants ==
    (call.op = "find_unique_variants"
        /\ \E k \in 1..Len(parsers) : parsers[k].sample_id = call.args[1]) =>
        LET t == CHOOSE k \in 1..Len(parsers) : parsers[k].sample_id = call.args[1]
            target == parsers[t].df
        IN  /\ Len(parsers) = 1 => ret = target
            /\ HasLocusColumns(target) =>
                   ret = DataFrame(target.columns, SelectSeq(target.rows, LAMBDA r :
                             \A k \in 1..Len(parsers) :
                                 k # t => ~AppearsIn(<<r["CHROM"], r["POS"]>>, parsers[k].df)))

\* A = {chr1:100, chr1:200} and B = {chr1:200}: only chr1:100 is unique to A
C20_Witness ==
    /\ call = [op |-> "find_unique_variants", args |-> <<"A">>]
    /\ Len(parsers) = 2
    /\ parsers[1] = [sample_id |-> "A",
                     df |-> DataFrame({"CHROM", "POS"},
                                <<[CHROM |-> Some(Chr \o Chrom1), POS |-> Some(100)],
                                  [CHROM |-> Some(Chr \o Chrom1), POS |-> Some(200)]>>)]
    /\ parsers[2] = [sample_id |-> "B",
                     df |-> DataFrame({"CHROM", "POS"},
                                <<[CHROM |-> Some(Chr \o Chrom1), POS |-> Some(200)]>>)]
    /\ ret.rows = <<[CHROM |-> Some(Chr \o Chrom1), POS |-> Some(100)]>>

\* C21: find_unique_variants with a sample identifier that is not a key of
\* the analyzer fails with a lookup error and returns no table.
C21_UnknownSampleRaises ==
    (call.op = "find_unique_variants"
        /\ \A k \in 1..Len(parsers) : parsers[k].sample_id # call.args[1]) =>
        IsRaised(ret)

---------------------------------------------------------------------------
(* Claims about the gene list (checked under SpecGenes) *)

\* C22: get_gene_list returns a sorted list of distinct gene symbols: the
\* comma-separated fields split into symbols, each trimmed, empty symbols
\* discarded, and no symbol twice.
C22_GeneListSortedDistinct ==
    (call.op = "get_gene_list" /\ "GENE" \in parser_df.columns) =>
        LET symbols == {Strip(g) : g \in UNION {SymbolsOf(Val(parser_df.rows[i]["GENE"])) :
                            i \in {j \in 1..Len(parser_df.rows) : parser_df.rows[j]["GENE"] # NA}}}
                       \ {<<>>}
        IN  /\ {ret.list[i] : i \in 1..Len(ret.list)} = symbols
            /\ \A i \in 1..(Len(ret.list) - 1) : StrLess(ret.list[i], ret.list[i + 1])

\* C26: every symbol returned by get_gene_list, passed alone to
\* filter_by_genes on the same table, selects at least one row.
C26_ListedGeneSelectsRow ==
    (call.op = "filter_by_genes"
        /\ \E g \in call.args[1] :
               /\ call.args[1] = {g}
               /\ \E i \in 1..Len(GetGeneList(parser_df).list) : GetGeneList(parser_df).list[i] = g) =>
        ret.rows # <<>>

---------------------------------------------------------------------------
(* users/models.py and users/decorators.py: role-based access control *)

\* UserRole.ROLE_CHOICES
Roles == {"ADMIN", "DATA_MANAGER", "RESEARCHER", "CLINICIAN"}
\* the permission methods of a UserRole
PermissionMethods ==
    {"can_create_patient", "can_edit_patient", "can_delete_patient", "can_create_file",
     "can_edit_file", "can_delete_file", "can_download_files", "can_view_samples"}

\* a permission method that leaves out confirmed_by_admin
CanUnconfirmed(user_role, method) ==
    user_role.role \in
        CASE method \in {"can_delete_patient", "can_delete_file"} -> {"ADMIN", "DATA_MANAGER"}
          [] method \in {"can_download_files", "can_view_samples"} ->
                 {"ADMIN", "DATA_MANAGER", "RESEARCHER", "CLINICIAN"}
          [] OTHER -> {"ADMIN", "DATA_MANAGER", "RESEARCHER"}
\* UserRole.can_*(): self.confirmed_by_admin and self.role in [...]
Can(user_role, method) ==
    /\ user_role.confirmed_by_admin
    /\ user_role.role \in
        CASE method \in {"can_create_patient", "can_edit_patient",
                         "can_create_file", "can_edit_file"} ->
                 {"ADMIN", "DATA_MANAGER", "RESEARCHER"}
          [] method \in {"can_delete_patient", "can_delete_file"} -> {"ADMIN", "DATA_MANAGER"}
          [] method \in {"can_download_files", "can_view_samples"} ->
                 {"ADMIN", "DATA_MANAGER", "RESEARCHER", "CLINICIAN"}

\* what a decorated view answers: a redirect, or the body of the view was run
Redirect(to) == [redirect |-> Some(to), view_executed |-> FALSE]
\* role_required with the test of the role before the test of its confirmation
RoleRequiredRoleFirst(allowed_roles, u) ==
    IF ~u.is_authenticated THEN Redirect("users:login")
    ELSE IF IsNa(u.email_verification) \/ ~Val(u.email_verification).email_confirmed
    THEN Redirect("users:resend_verification")
    ELSE IF IsNa(u.role) THEN Redirect("home:index")
    ELSE IF Val(u.role).role \notin allowed_roles THEN Redirect("samples:sample_list")
    ELSE IF ~Val(u.role).confirmed_by_admin THEN Redirect("home:index")
    ELSE [redirect |-> NA, view_executed |-> TRUE]
\* role_required(allowed_roles)(view_func)(request), u = request.user
RoleRequired(allowed_roles, u) ==
    IF ~u.is_authenticated THEN Redirect("users:login")
    ELSE IF IsNa(u.email_verification) \/ ~Val(u.email_verification).email_confirmed
    THEN Redirect("users:resend_verification")
    ELSE IF IsNa(u.role) THEN Redirect("home:index")
    ELSE IF ~Val(u.role).confirmed_by_admin THEN Redirect("home:index")
    ELSE IF Val(u.role).role \notin allowed_roles THEN Redirect("samples:sample_list")
    ELSE [redirect |-> NA, view_executed |-> TRUE]

\* the users of a request: the anonymous user, and the logged-in users with or
\* without an email verification record and with or without a role record
Users ==
    {[is_authenticated |-> FALSE, email_verification |-> NA, role |-> NA]}
    \cup [is_authenticated : {TRUE},
          email_verification : {NA} \cup {Some([email_confirmed |-> b]) : b \in BOOLEAN},
          role : {NA} \cup {Some(r) : r \in [role : Roles, confirmed_by_admin : BOOLEAN]}]
\* the role lists the views are decorated with, and the one of the docstring
AllowedRolesArgs ==
    { {"ADMIN"}, {"ADMIN", "DATA_MANAGER"}, {"ADMIN", "DATA_MANAGER", "RESEARCHER"},
      {"ADMIN", "MANAGER", "RESEARCHER"} }

\* nothing of the analysis library is in use
LibraryIdle ==
    /\ gt_string = NA /\ parsed = NotCalled /\ het = NotCalled /\ hom = NotCalled
    /\ parser_df = NoObject /\ model_df = NoObject /\ df0 = NoObject
    /\ call = NoCallYet /\ ret = NoObject /\ parsers = <<>>

InitRbac ==
    /\ LibraryIdle
    /\ user \in Users
    /\ response = NA
    /\ job = NA /\ requests = <<>> /\ disk = FALSE /\ now = 0 /\ served = <<>>

CallPermissionMethod ==
    \E method \in PermissionMethods :
        /\ ~IsNa(user.role)
        /\ response' = Some([op |-> method, result |-> Can(Val(user.role), method)])
        /\ UNCHANGED <<user, libvars, jobvars>>

CallRoleRequired ==
    \E allowed_roles \in AllowedRolesArgs :
        /\ response' = Some([op |-> "role_required", allowed_roles |-> allowed_roles]
                             @@ RoleRequired(allowed_roles, user))
        /\ UNCHANGED <<user, libvars, jobvars>>

SpecRbac == InitRbac /\ [][CallPermissionMethod \/ CallRoleRequired]_vars

---------------------------------------------------------------------------
(* Claims about the access control (checked under SpecRbac) *)

\* C23: no permission method returns true unless confirmed_by_admin is true;
\* when confirmed, the delete permissions hold exactly for ADMIN and
\* DATA_MANAGER, the create and edit permissions exactly for ADMIN,
\* DATA_MANAGER and RESEARCHER, and view and download for all four roles.
C23_Permissions ==
    (response # NA /\ Val(response).op \in PermissionMethods) =>
        LET role == Val(user.role)
            op == Val(response).op
        IN  Val(response).result <=>
                /\ role.confirmed_by_admin
                /\ op \in {"can_delete_patient", "can_delete_file"} =>
                       role.role \in {"ADMIN", "DATA_MANAGER"}
                /\ op \in {"can_create_patient", "can_edit_patient",
                            "can_create_file", "can_edit_file"} =>
                       role.role \in {"ADMIN", "DATA_MANAGER", "RESEARCHER"}
                /\ role.role \in Roles

\* an unconfirmed administrator is refused the deletion of a patient
C23_Witness ==
    /\ user.role = Some([role |-> "ADMIN", confirmed_by_admin |-> FALSE])
    /\ response = Some([op |-> "can_delete_patient", result |-> FALSE])

\* C24: a view wrapped by role_required(allowed_roles) is executed only for
\* a user who is authenticated, has a confirmed email verification, has a
\* role record confirmed by an admin, and whose role is in allowed_roles; in
\* every other case the body is not executed and a redirect is returned, the
\* checks made in the order login, email, role present, role confirmed, role
\* allowed.
C24_RoleRequired ==
    (response # NA /\ Val(response).op = "role_required") =>
        LET r == Val(response)
            checks == << user.is_authenticated,
                         ~IsNa(user.email_verification)
                             /\ Val(user.email_verification).email_confirmed,
                         ~IsNa(user.role),
                         ~IsNa(user.role) /\ Val(user.role).confirmed_by_admin,
                         ~IsNa(user.role) /\ Val(user.role).role \in r.allowed_roles >>
            target == << "users:login", "users:resend_verification", "home:index",
                         "home:index", "samples:sample_list" >>
            failed == {k \in 1..5 : ~checks[k]}
        IN  /\ r.view_executed <=> failed = {}
            /\ r.view_executed <=> IsNa(r.redirect)
            /\ failed # {} =>
                   r.redirect = Some(target[CHOOSE k \in failed : \A j \in failed : k <= j])

\* an unconfirmed clinician asking for an administrators' view is sent to the
\* home page (role not confirmed), not to the sample list (role not allowed)
C24_Witness ==
    /\ user = [is_authenticated |-> TRUE,
               email_verification |-> Some([email_confirmed |-> TRUE]),
               role |-> Some([role |-> "CLINICIAN", confirmed_by_admin |-> FALSE])]
    /\ response = Some([op |-> "role_required", allowed_roles |-> {"ADMIN"},
                        redirect |-> Some("home:index"), view_executed |-> FALSE])

---------------------------------------------------------------------------
(* region_selection: the life of one RegionExtractionJob under concurrent   *)
(* requests.  Every request works on its own instance of the row, loaded by *)
(* get_object_or_404; job.save() writes every field of the instance.  A     *)
(* request takes one step when it reads the row and one at each access to   *)
(* the file system, with the tests and writes that follow it.               *)

\* job.set_expiration(minutes=10), in ticks of the clock
ExpirationTicks == 1
\* RegionExtractionJob.is_expired(), evaluated at time t
IsExpired(j, t) == IF ~IsNa(j.expires_at) THEN t > Val(j.expires_at) ELSE FALSE
\* the request moves to position pc, holding the instance instance; nothing
\* outside the job's state changes
Goto(r, pc, instance) ==
    /\ requests' = [requests EXCEPT ![r].pc = pc, ![r].job = instance]
    /\ UNCHANGED <<user, response, libvars>>
\* cleanup_job_files(j): the state of the temporary directory afterwards
CleanupJobFiles(j) == IF IsNa(j.output_file_path) THEN disk ELSE FALSE

\* create_extraction has saved the row (PENDING, or FAILED when the gene name
\* is unknown); two requests to each of process_extraction and
\* download_extracted_file, one to job_detail, and one run of the command
InitRegion ==
    /\ LibraryIdle
    /\ user = NA /\ response = NA
    /\ job \in [status : {"PENDING", "FAILED"}, expires_at : {NA}, output_file_path : {NA}]
    /\ requests = [r \in {"process_1", "process_2", "download_1", "download_2",
                          "job_detail", "cleanup"} |->
                      [pc |-> "start", job |-> job, options |-> {}]]
    /\ disk = FALSE
    /\ now = 0
    /\ served = <<>>

\* process_extraction(request, job_id)
ProcessExtraction ==
    \E r \in {"process_1", "process_2"} :
        LET pc == requests[r].pc
            self == requests[r].job
            failed == [self EXCEPT !.status = "FAILED"]
        IN  \/ /\ pc = "start"
               /\ IF job.status \notin {"PENDING", "PROCESSING"}
                  THEN /\ Goto(r, "done", job)
                       /\ UNCHANGED job
                  ELSE /\ job' = [job EXCEPT !.status = "PROCESSING"]
                       /\ Goto(r, "extract", job')
               /\ UNCHANGED <<disk, now, served>>
            \/ /\ pc = "extract"
               /\ disk' = TRUE
               /\ Goto(r, "completed", self)
               /\ UNCHANGED <<job, now, served>>
            \/ /\ pc = "extract"
               /\ disk' \in BOOLEAN
               /\ job' = failed
               /\ Goto(r, "done", failed)
               /\ UNCHANGED <<now, served>>
            \/ /\ pc = "completed"
               /\ IF disk
                  THEN /\ job' = [status |-> "COMPLETED",
                                  expires_at |-> Some(now + ExpirationTicks),
                                  output_file_path |-> Some("extracted.bam")]
                       /\ Goto(r, "done", job')
                  ELSE /\ job' = failed
                       /\ Goto(r, "done", failed)
               /\ UNCHANGED <<disk, now, served>>

\* download_extracted_file(request, job_id)
DownloadExtractedFile ==
    \E r \in {"download_1", "download_2"} :
        LET pc == requests[r].pc
            self == requests[r].job
        IN  \/ /\ pc = "start"
               /\ Goto(r, IF job.status # "COMPLETED" THEN "done" ELSE "verify", job)
               /\ UNCHANGED <<job, disk, now, served>>
            \/ /\ pc = "verify"
               /\ IsNa(self.output_file_path) \/ ~disk
               /\ job' = [self EXCEPT !.status = "FAILED"]
               /\ Goto(r, "done", job')
               /\ UNCHANGED <<disk, now, served>>
            \/ /\ pc = "verify"
               /\ ~IsNa(self.output_file_path) /\ disk
               /\ IsExpired(self, now)
               /\ job' = [self EXCEPT !.status = "EXPIRED"]
               /\ disk' = CleanupJobFiles(self)
               /\ Goto(r, "done", job')
               /\ UNCHANGED <<now, served>>
            \/ /\ pc = "verify"
               /\ ~IsNa(self.output_file_path) /\ disk
               /\ ~IsExpired(self, now)
               /\ served' = Append(served, [status |-> job.status,
                                            expired |-> IsExpired(job, now)])
               /\ job' = [job EXCEPT !.status = "DOWNLOADED"]
               /\ Goto(r, "served", [self EXCEPT !.status = "DOWNLOADED"])
               /\ UNCHANGED <<disk, now>>

\* job_detail(request, job_id)
JobDetail ==
    LET pc == requests["job_detail"].pc
        self == requests["job_detail"].job
    IN  \/ /\ pc = "start"
           /\ Goto("job_detail", "check", job)
           /\ UNCHANGED <<job, disk, now, served>>
        \/ /\ pc = "check"
           /\ IsExpired(self, now) /\ self.status = "COMPLETED"
           /\ job' = [self EXCEPT !.status = "EXPIRED"]
           /\ disk' = CleanupJobFiles(self)
           /\ Goto("job_detail", "done", job')
           /\ UNCHANGED <<now, served>>
        \/ /\ pc = "check"
           /\ ~(IsExpired(self, now) /\ self.status = "COMPLETED")
           /\ Goto("job_detail", "done", self)
           /\ UNCHANGED <<job, disk, now, served>>

\* manage.py cleanup_expired_extractions [--dry-run] [--all-downloaded]
CleanupExpiredExtractions ==
    LET pc == requests["cleanup"].pc
        self == requests["cleanup"].job
        options == requests["cleanup"].options
    IN  \/ /\ pc = "start"
           /\ \E opts \in SUBSET {"dry_run", "all_downloaded"} :
                  requests' = [requests EXCEPT !["cleanup"] =
                      [pc |-> IF /\ job.status = "COMPLETED"
                                 /\ ~IsNa(job.expires_at) /\ Val(job.expires_at) <= now
                                 /\ "dry_run" \notin opts
                              THEN "expire" ELSE "downloaded_jobs",
                       job |-> job, options |-> opts]]
           /\ UNCHANGED <<job, disk, now, served, user, response, libvars>>
        \/ /\ pc = "expire"
           /\ job' = [self EXCEPT !.status = "EXPIRED"]
           /\ disk' = CleanupJobFiles(self)
           /\ Goto("cleanup", "downloaded_jobs", job')
           /\ UNCHANGED <<now, served>>
        \/ /\ pc = "downloaded_jobs"
           /\ disk' = IF options = {"all_downloaded"} /\ job.status = "DOWNLOADED"
                      THEN CleanupJobFiles(job) ELSE disk
           /\ Goto("cleanup", "done", job)
           /\ UNCHANGED <<job, now, served>>

\* time passes
Tick ==
    /\ now < MaxNow
    /\ now' = now + 1
    /\ UNCHANGED <<job, requests, disk, served, user, response, libvars>>

NextRegion ==
    \/ ProcessExtraction
    \/ DownloadExtractedFile
    \/ JobDetail
    \/ CleanupExpiredExtractions
    \/ Tick

SpecRegion == InitRegion /\ [][NextRegion]_vars

---------------------------------------------------------------------------
(* Claims about the region extraction job (checked under SpecRegion) *)

\* C25: once download_extracted_file has served the job's file, the job's
\* temporary directory no longer exists.
C25_CleanedUpAfterDownload ==
    \A r \in DOMAIN requests : requests[r].pc = "served" => ~disk

\* C30: under any interleaving of the requests and the cleanup command, the
\* file is served only while the status is COMPLETED and the job is not
\* expired, a served download sets the status DOWNLOADED and at most one
\* download is served per job, and a status FAILED, EXPIRED or DOWNLOADED
\* never changes again.
C30_RegionJobLifecycle ==
    /\ [](\A i \in 1..Len(served) : served[i].status = "COMPLETED" /\ ~served[i].expired)
    /\ [](Len(served) <= 1)
    /\ [][Len(served') > Len(served) => job'.status = "DOWNLOADED"]_vars
    /\ [][job.status \in {"FAILED", "EXPIRED", "DOWNLOADED"} => job'.status = job.status]_vars

---------------------------------------------------------------------------
(* ai_agent: the life of one AnalysisJob.  start_analysis_job creates the   *)
(* row and sends a task message; the task runner runs the task once for the *)
(* message, and once more when the broker delivers the message again.       *)

\* AnalysisJob.JOB_TYPE_CHOICES
JobTypes ==
    {"STATISTICAL", "VARIANT_INTERPRETATION", "COMPARATIVE", "GENETIC_MODEL",
     "CUSTOM_QUERY", "REPORT_GENERATION"}

\* AnalysisJob.mark_started
MarkStarted(self) == [self EXCEPT !.status = "PROCESSING", !.started_at = Some(now)]
\* AnalysisJob.mark_completed
MarkCompleted(self, result_data, result_file_path) ==
    [self EXCEPT !.status = "COMPLETED", !.completed_at = Some(now),
                 !.result_data = result_data,
                 !.result_file_path = IF IsNa(result_file_path) THEN @ ELSE result_file_path]
\* AnalysisJob.mark_failed
MarkFailed(self, error_message) ==
    [self EXCEPT !.status = "FAILED", !.completed_at = Some(now),
                 !.error_message = Some(error_message)]

\* no job has been asked for; no task message has been sent
InitAnalysis ==
    /\ LibraryIdle
    /\ user = NA /\ response = NA
    /\ job = NA
    /\ requests = [t \in {"delivery_1", "delivery_2"} |-> [pc |-> "idle", job |-> NA]]
    /\ disk = FALSE
    /\ now = 0
    /\ served = <<>>

\* start_analysis_job(request): the row is created before the job type is
\* looked at; a request without job_type is answered 400 before that
StartAnalysisJob ==
    \E job_type \in JobTypes \cup {""} :
        /\ job = NA /\ response = NA
        /\ IF job_type = ""
           THEN /\ response' = Some([status |-> 400, error |-> "Missing required fields"])
                /\ UNCHANGED <<job, requests>>
           ELSE /\ job' = Some([job_type |-> job_type, status |-> "PENDING",
                                started_at |-> NA, completed_at |-> NA, result_data |-> NA,
                                result_file_path |-> NA, error_message |-> NA])
                /\ IF job_type \in {"STATISTICAL", "GENETIC_MODEL", "COMPARATIVE"}
                   THEN /\ requests' = [requests EXCEPT !["delivery_1"].pc = "queued"]
                        /\ response' = Some([status |-> 200, success |-> TRUE])
                   ELSE /\ response' = Some([status |-> 400, error |-> "Unknown job type"])
                        /\ UNCHANGED requests
        /\ UNCHANGED <<user, libvars, disk, now, served>>

\* the broker delivers the task message a second time
Redeliver ==
    /\ requests["delivery_1"].pc # "idle"
    /\ requests["delivery_2"].pc = "idle"
    /\ requests' = [requests EXCEPT !["delivery_2"].pc = "queued"]
    /\ UNCHANGED <<user, response, libvars, job, disk, now, served>>

\* run_statistical_analysis, run_genetic_model_analysis and
\* run_comparative_analysis(job_id): the same steps on the row
RunAnalysisTask(t) ==
    /\ \/ /\ requests[t].pc = "queued"
          /\ job' = Some(MarkStarted(Val(job)))
          /\ requests' = [requests EXCEPT ![t] = [pc |-> "analysis", job |-> job']]
       \/ /\ requests[t].pc = "analysis"
          /\ \E result_file_path \in
                 {NA} \cup (IF Val(job).job_type = "STATISTICAL" THEN {} ELSE {Some("report.csv")}) :
                 job' = Some(MarkCompleted(Val(requests[t].job), Some("result"), result_file_path))
          /\ requests' = [requests EXCEPT ![t] = [pc |-> "done", job |-> job']]
       \/ /\ requests[t].pc = "analysis"
          /\ job' = Some(MarkFailed(Val(job), "error"))
          /\ requests' = [requests EXCEPT ![t] = [pc |-> "raised", job |-> job']]
    /\ UNCHANGED <<user, response, libvars, disk, now, served>>

NextAnalysis ==
    \/ StartAnalysisJob
    \/ Redeliver
    \/ \E t \in {"delivery_1", "delivery_2"} : RunAnalysisTask(t)

SpecAnalysis == InitAnalysis /\ [][NextAnalysis]_vars
\* the task runner runs every delivered task to its end
SpecAnalysisLive ==
    SpecAnalysis /\ \A t \in {"delivery_1", "delivery_2"} : WF_vars(RunAnalysisTask(t))

---------------------------------------------------------------------------
(* Claims about the analysis job (checked under SpecAnalysis) *)

\* C28: the status of an AnalysisJob only moves PENDING -> PROCESSING ->
\* COMPLETED or PENDING/PROCESSING -> FAILED; once COMPLETED or FAILED no
\* later step of a task for the job, a second delivery included, changes its
\* status, result_data or error_message; FAILED implies error_message is set
\* and COMPLETED implies completed_at is set.
C28_AnalysisJobStatus ==
    /\ [](job # NA =>
            /\ Val(job).status = "FAILED" => ~IsNa(Val(job).error_message)
            /\ Val(job).status = "COMPLETED" => ~IsNa(Val(job).completed_at))
    /\ [][job # NA =>
            /\ Val(job').status # Val(job).status =>
                   <<Val(job).status, Val(job').status>> \in
                       { <<"PENDING", "PROCESSING">>, <<"PROCESSING", "COMPLETED">>,
                         <<"PENDING", "FAILED">>, <<"PROCESSING", "FAILED">> }
            /\ Val(job).status \in {"COMPLETED", "FAILED"} =>
                   /\ Val(job').status = Val(job).status
                   /\ Val(job').result_data = Val(job).result_data
                   /\ Val(job').error_message = Val(job).error_message]_vars

\* C29: every job row created by start_analysis_job is handed to one
\* background task and, the task runner running each delivered task to its
\* end, eventually is COMPLETED or FAILED: no job stays PENDING forever.
C29_EveryJobFinishes ==
    /\ [](job # NA => requests["delivery_1"].pc # "idle")
    /\ (job # NA) ~> (job # NA /\ Val(job).status \in {"COMPLETED", "FAILED"})

---------------------------------------------------------------------------
(* The three inheritance filters and the annotation on one table *)

\* the rows of the inheritance filters that pass the default quality and
\* impact stages, each in the gene BRCA1
AgreementRows ==
    {r @@ [GENE |-> Some(Brca1)] :
        r \in {q \in InheritanceRows : q["QUAL"] # Some(20) /\ q["IMPACT"] # Some("LOW")}}
AgreementTables ==
    UNION {TablesOver((InheritanceColumns \cup {"GENE"}) \ without, AgreementRows) :
               without \in {{}, {"gnomAD_AF"}}}

NextAgreement ==
    \/ CallFilterAutosomalDominant
    \/ CallFilterAutosomalRecessive
    \/ CallFilterCompoundHeterozygous
    \/ CallAnnotateInheritancePattern

SpecAgreement == LoadedModelFilter(AgreementTables) /\ [][NextAgreement]_vars

\* the tags classify_pattern gives a row
TagsOf(row) == {Val(ClassifyPattern(row))[k] : k \in 1..Len(Val(ClassifyPattern(row)))}
\* every row of the returned table carries the tag
AllTagged(tag) == \A i \in 1..Len(ret.rows) : tag \in TagsOf(ret.rows[i])

\* C27: with the default parameters every row returned by
\* filter_autosomal_dominant is labelled AD_candidate by
\* annotate_inheritance_pattern, every row returned by
\* filter_autosomal_recessive AR_candidate, and every row returned by
\* filter_compound_heterozygous CompHet_candidate; a row labelled
\* AD_candidate is also labelled CompHet_candidate, and AR_candidate never
\* appears together with either.
C27_AnnotationAgreesWithFilters ==
    /\ call = [op |-> "filter_autosomal_dominant",
               args |-> <<DominantMaxGnomadAf, DefaultMinQual, DefaultImpacts>>]
           => AllTagged("AD_candidate")
    /\ call = [op |-> "filter_autosomal_recessive",
               args |-> <<RecessiveMaxGnomadAf, DefaultMinQual, DefaultImpacts>>]
           => AllTagged("AR_candidate")
    /\ call = [op |-> "filter_compound_heterozygous",
               args |-> <<CompoundHetMaxGnomadAf, DefaultMinQual, DefaultImpacts>>]
           => AllTagged("CompHet_candidate")
    /\ (call.op = "annotate_inheritance_pattern" /\ "GT" \in ret.columns) =>
           \A i \in 1..Len(ret.rows) :
               LET tags == {Tag(ret.rows[i])[k] : k \in 1..Len(Tag(ret.rows[i]))}
               IN  /\ "AD_candidate" \in tags => "CompHet_candidate" \in tags
                   /\ "AR_candidate" \in tags =>
                          tags \cap {"AD_candidate", "CompHet_candidate"} = {}

\* two heterozygous rows of one gene, the frequency of the first missing: both
\* are returned by filter_compound_heterozygous
C27_Witness ==
    /\ call = [op |-> "filter_compound_heterozygous",
               args |-> <<CompoundHetMaxGnomadAf, DefaultMinQual, DefaultImpacts>>]
    /\ "gnomAD_AF" \in ret.columns
    /\ Len(ret.rows) = 2
    /\ ret.rows[1]["gnomAD_AF"] = NA
    /\ ret.rows[2]["gnomAD_AF"] = Some(50)

=============================================================================
